---- MODULE Spec2Model ----
(***************************************************************************)
(* Command safety classification, validation, confirmation protocol and    *)
(* execution engine of the agent tool (src/src/command_processor.py,       *)
(* src/src/user_interaction.py, src/src/cli.py).                           *)
(*                                                                         *)
(* A text is a sequence of one-character strings.  Python's `in`, strip,   *)
(* lower, re.search and shlex.split are computed on those sequences.       *)
(***************************************************************************)
EXTENDS Integers, Sequences, FiniteSets, TLC

\* ------------------------------------------------------------------ text

\* The whitespace characters of the modelled alphabet (str.strip, re \s, shlex).
Whitespace == {" ", "\t", "\n"}

UPPER == <<"A", "B", "C", "D", "E", "F", "G", "H", "I", "J", "K", "L", "M",
           "N", "O", "P", "Q", "R", "S", "T", "U", "V", "W", "X", "Y", "Z">>

LOWER == <<"a", "b", "c", "d", "e", "f", "g", "h", "i", "j", "k", "l", "m",
           "n", "o", "p", "q", "r", "s", "t", "u", "v", "w", "x", "y", "z">>

\* str.lower on one character.
LowerChar(c) ==
    IF \E i \in 1..Len(UPPER) : UPPER[i] = c
    THEN LOWER[CHOOSE i \in 1..Len(UPPER) : UPPER[i] = c]
    ELSE c

\* str.lower
lower(s) == [i \in 1..Len(s) |-> LowerChar(s[i])]

\* str.upper on one character, then on a text.
UpperChar(c) ==
    IF \E i \in 1..Len(LOWER) : LOWER[i] = c
    THEN UPPER[CHOOSE i \in 1..Len(LOWER) : LOWER[i] = c]
    ELSE c

upper(s) == [i \in 1..Len(s) |-> UpperChar(s[i])]

\* str.strip: leading and trailing whitespace removed.
strip(s) ==
    LET keep == {i \in 1..Len(s) : s[i] \notin Whitespace}
    IN  IF keep = {} THEN <<>>
        ELSE LET lo == CHOOSE i \in keep : \A j \in keep : i <= j
                 hi == CHOOSE i \in keep : \A j \in keep : j <= i
             IN  SubSeq(s, lo, hi)

\* Python's `sub in s` on strings (case-sensitive substring test).
Contains(s, sub) ==
    \E i \in 1..(Len(s) - Len(sub) + 1) : SubSeq(s, i, i + Len(sub) - 1) = sub

\* any(x in s for x in names)
ContainsAny(s, names) == \E k \in 1..Len(names) : Contains(s, names[k])

\* str.split()[0]: the first whitespace-free run of the text (<<>> when none).
FirstWord(s) ==
    LET t == strip(s)
        ws == {i \in 1..Len(t) : t[i] \in Whitespace}
    IN  IF ws = {} THEN t
        ELSE SubSeq(t, 1, (CHOOSE i \in ws : \A j \in ws : i <= j) - 1)

\* ----------------------------------------------------------------- regex

\* A pattern is a sequence of elements: a one-character string is a literal,
\* "\\s+", "\\s*", ".*" and "()" are the regex constructs of the same spelling.
\* MatchMoves: the places <<k', i'>> the match of element pat[k] at s[i] may go on
\* from, under re.IGNORECASE.
MatchMoves(pat, k, s, i) ==
    LET e == pat[k]
        space == i <= Len(s) /\ s[i] \in Whitespace
        stay == IF space THEN {<<k, i + 1>>} ELSE {}
    IN  CASE e = "\\s+" -> IF space THEN {<<k + 1, i + 1>>, <<k, i + 1>>} ELSE {}
          [] e = "\\s*" -> {<<k + 1, i>>} \cup stay
          [] e = ".*"   -> {<<k + 1, i>>} \cup
                           (IF i <= Len(s) /\ s[i] # "\n" THEN {<<k, i + 1>>} ELSE {})
          [] e = "()"   -> {<<k + 1, i>>}
          [] OTHER      -> IF i <= Len(s) /\ LowerChar(s[i]) = LowerChar(e)
                           THEN {<<k + 1, i + 1>>} ELSE {}

\* MatchAt: the elements pat[k..] match a prefix of s[i..].
RECURSIVE MatchAt(_, _, _, _)
MatchAt(pat, k, s, i) ==
    \/ k > Len(pat)
    \/ /\ k <= Len(pat)
       /\ \E n \in MatchMoves(pat, k, s, i) : MatchAt(pat, n[1], s, n[2])

\* re.search(pattern, s, re.IGNORECASE) is not None
re_search(pat, s) == \E i \in 1..(Len(s) + 1) : MatchAt(pat, 1, s, i)

\* ----------------------------------------------------------------- shlex

\* shlex.split(s) in POSIX mode, reduced to its outcome: "ok", or the message of
\* the ValueError it raises.  state is "a" outside quotes, the open quote
\* character inside quotes, "\\" after an escape character; escapedstate is
\* the state an escape returns to.  ShlexRead: <<state, escapedstate>> after
\* character c is read.
ShlexRead(state, escapedstate, c) ==
    CASE state \in {"'", "\""} ->
            IF c = state THEN <<"a", escapedstate>>
            ELSE IF c = "\\" /\ state = "\"" THEN <<"\\", state>>
                 ELSE <<state, escapedstate>>
      [] state = "\\" -> <<escapedstate, escapedstate>>
      [] OTHER ->
            IF c \in {"'", "\""} THEN <<c, escapedstate>>
            ELSE IF c = "\\" THEN <<"\\", "a">>
                 ELSE <<"a", escapedstate>>

RECURSIVE ShlexScan(_, _, _, _)
ShlexScan(s, i, state, escapedstate) ==
    IF i > Len(s)
    THEN CASE state \in {"'", "\""} -> "No closing quotation"
           [] state = "\\"          -> "No escaped character"
           [] OTHER                 -> "ok"
    ELSE LET n == ShlexRead(state, escapedstate, s[i])
         IN  ShlexScan(s, i + 1, n[1], n[2])

shlex_split(s) == ShlexScan(s, 1, "a", "a")

\* ------------------------------------------------------- pattern rule set

LOW == "low"
MEDIUM == "medium"
HIGH == "high"
CRITICAL == "critical"

RiskLevel == {LOW, MEDIUM, HIGH, CRITICAL}

DANGEROUS_PATTERNS ==
    << <<"r", "m", "\\s+", "-", "r", "f", "\\s*", "/">>,
       <<"r", "m", "\\s+", "-", "r", "f", "\\s*", "*">>,
       <<"d", "d", "\\s+", "i", "f", "=", ".*", "o", "f", "=", "/", "d", "e", "v", "/">>,
       <<"m", "k", "f", "s", ".">>,
       <<"f", "d", "i", "s", "k">>,
       <<"p", "a", "r", "t", "e", "d">>,
       <<"w", "i", "p", "e", "f", "s">>,
       <<"s", "h", "r", "e", "d">>,
       <<">", "/", "d", "e", "v", "/", "s", "d", "a">>,
       <<"c", "h", "m", "o", "d", "\\s+", "7", "7", "7", "\\s+", "/">>,
       <<"c", "h", "o", "w", "n", "\\s+", ".*", ":", ".*", "\\s+", "/">>,
       <<"s", "y", "s", "t", "e", "m", "c", "t", "l", "\\s+", "s", "t", "o", "p">>,
       <<"s", "y", "s", "t", "e", "m", "c", "t", "l", "\\s+", "d", "i", "s", "a", "b", "l", "e">>,
       <<"s", "e", "r", "v", "i", "c", "e", "\\s+", ".*", "\\s+", "s", "t", "o", "p">>,
       <<"k", "i", "l", "l", "a", "l", "l", "\\s+", "-", "9">>,
       <<"p", "k", "i", "l", "l", "\\s+", "-", "9">>,
       <<":", "()", "{", "\\s*", ":", "|", ":", "&", "\\s*", "}", ";", ":">>,
       <<"c", "u", "r", "l", ".*", "|", "\\s*", "s", "h">>,
       <<"w", "g", "e", "t", ".*", "|", "\\s*", "s", "h">>,
       <<"e", "v", "a", "l", "\\s*", "$", "(">> >>
SUDO_COMMANDS ==
    << <<"a", "p", "t">>,
       <<"y", "u", "m">>,
       <<"d", "n", "f">>,
       <<"p", "a", "c", "m", "a", "n">>,
       <<"z", "y", "p", "p", "e", "r">>,
       <<"s", "y", "s", "t", "e", "m", "c", "t", "l">>,
       <<"s", "e", "r", "v", "i", "c", "e">>,
       <<"m", "o", "u", "n", "t">>,
       <<"u", "m", "o", "u", "n", "t">>,
       <<"f", "d", "i", "s", "k">>,
       <<"p", "a", "r", "t", "e", "d">>,
       <<"m", "k", "f", "s">>,
       <<"f", "s", "c", "k">>,
       <<"i", "p", "t", "a", "b", "l", "e", "s">>,
       <<"u", "f", "w">>,
       <<"f", "i", "r", "e", "w", "a", "l", "l", "-", "c", "m", "d">>,
       <<"d", "o", "c", "k", "e", "r">>,
       <<"p", "o", "d", "m", "a", "n">> >>
FILE_COMMANDS ==
    << <<"r", "m">>,
       <<"c", "p">>,
       <<"m", "v">>,
       <<"c", "h", "m", "o", "d">>,
       <<"c", "h", "o", "w", "n">>,
       <<"l", "n">>,
       <<"t", "o", "u", "c", "h">>,
       <<"m", "k", "d", "i", "r">>,
       <<"r", "m", "d", "i", "r">> >>
important_dirs ==
    << <<"/", "b", "i", "n">>,
       <<"/", "s", "b", "i", "n">>,
       <<"/", "u", "s", "r">>,
       <<"/", "e", "t", "c">>,
       <<"/", "b", "o", "o", "t">>,
       <<"/", "l", "i", "b">>,
       <<"/", "v", "a", "r">> >>
network_commands ==
    << <<"c", "u", "r", "l">>,
       <<"w", "g", "e", "t">>,
       <<"n", "c">>,
       <<"n", "e", "t", "c", "a", "t">>,
       <<"s", "s", "h">>,
       <<"s", "c", "p">>,
       <<"r", "s", "y", "n", "c">> >>


\* ------------------------------------------------------- risk classifier

\* A finding: the message of a warning and the text it is formatted with.
Warn(msg, arg) == [msg |-> msg, arg |-> arg]

\* What a raised TypeError leaves of a classification: no level, no findings.
TypeError == "TypeError"

\* The builtin max(a, b) applied to two RiskLevel members.  RiskLevel is a plain
\* Enum: it defines no ordering, so the comparison max makes raises TypeError,
\* also when both members are the same.
max(a, b) == TypeError

\* warnings.append(finding); risk_level = max(risk_level, level)
Escalate(st, level, finding) ==
    IF st.raised THEN st
    ELSE LET m == max(st.risk_level, level) IN
         IF m = TypeError
         THEN [raised |-> TRUE, risk_level |-> "none", warnings |-> <<>>]
         ELSE [raised |-> FALSE, risk_level |-> m,
               warnings |-> Append(st.warnings, finding)]

\* The indices of DANGEROUS_PATTERNS that re.search finds in the command, in
\* table order.
MatchedPatterns(command) ==
    SelectSeq([i \in 1..Len(DANGEROUS_PATTERNS) |-> i],
              LAMBDA i : re_search(DANGEROUS_PATTERNS[i], command))

\* The loop over DANGEROUS_PATTERNS: one finding per matched pattern, and the
\* level assigned (not combined) to CRITICAL.
CheckDangerous(st, command) ==
    LET hit == MatchedPatterns(command) IN
    IF hit = <<>> THEN st
    ELSE [raised |-> FALSE, risk_level |-> CRITICAL,
          warnings |-> st.warnings \o
              [k \in 1..Len(hit) |-> Warn("dangerous pattern", DANGEROUS_PATTERNS[hit[k]])]]

\* The privileged-command rule.
CheckSudo(st, command, cfg) ==
    IF st.raised \/ ~ContainsAny(command, SUDO_COMMANDS) THEN st
    ELSE IF ~cfg.allow_sudo
         THEN Escalate(st, HIGH, Warn("needs admin rights, sudo not allowed", <<>>))
         ELSE Escalate(st, MEDIUM, Warn("needs admin rights", <<>>))

\* The first important directory the command names (the loop breaks there).
FirstImportantDir(command) ==
    important_dirs[CHOOSE k \in 1..Len(important_dirs) :
                      /\ Contains(command, important_dirs[k])
                      /\ \A j \in 1..(k - 1) : ~Contains(command, important_dirs[j])]

\* The file-operation rule: important directories, then the allow-list.
CheckFiles(st, command, cfg) ==
    IF st.raised \/ ~ContainsAny(command, FILE_COMMANDS) THEN st
    ELSE LET s1 == IF ContainsAny(command, important_dirs)
                   THEN Escalate(st, HIGH,
                            Warn("important system directory", FirstImportantDir(command)))
                   ELSE st
         IN  IF cfg.allowed_dirs # <<>> /\ ~ContainsAny(command, cfg.allowed_dirs)
             THEN Escalate(s1, MEDIUM, Warn("file operation outside allowed dirs", <<>>))
             ELSE s1

\* The network-tool rule.
CheckNetwork(st, command) ==
    IF st.raised \/ ~ContainsAny(command, network_commands) THEN st
    ELSE Escalate(st, MEDIUM, Warn("network operation", <<>>))

\* The pipe and redirection rule.
CheckPipes(st, command) ==
    IF st.raised \/ ~(\/ Contains(command, <<"|">>)
                      \/ Contains(command, <<">">>)
                      \/ Contains(command, <<">", ">">>)) THEN st
    ELSE Escalate(st, MEDIUM, Warn("pipe or redirection", <<>>))

\* SecurityChecker.check_command_safety: [raised, risk_level, warnings].
check_command_safety(command, cfg) ==
    LET s0 == [raised |-> FALSE, risk_level |-> LOW, warnings |-> <<>>]
        s1 == CheckDangerous(s0, command)
        s2 == CheckSudo(s1, command, cfg)
        s3 == CheckFiles(s2, command, cfg)
        s4 == CheckNetwork(s3, command)
    IN  CheckPipes(s4, command)

\* A faulty is_command_allowed that tests strict_mode first and lets every
\* command through when it is off.
AllowedBy_StrictOnly(c, cfg) ==
    IF c.raised THEN [raised |-> TRUE, allowed |-> FALSE]
    ELSE [raised |-> FALSE,
          allowed |-> ~(cfg.strict_mode /\ c.risk_level \in {CRITICAL, HIGH})]

\* The decision of is_command_allowed on the classification c it obtained.
AllowedBy(c, cfg) ==
    IF c.raised THEN [raised |-> TRUE, allowed |-> FALSE]
    ELSE IF c.risk_level = CRITICAL THEN [raised |-> FALSE, allowed |-> FALSE]
    ELSE IF cfg.strict_mode /\ c.risk_level = HIGH THEN [raised |-> FALSE, allowed |-> FALSE]
    ELSE [raised |-> FALSE, allowed |-> TRUE]

\* SecurityChecker.is_command_allowed: [raised, allowed].
is_command_allowed(command, cfg) == AllowedBy(check_command_safety(command, cfg), cfg)

\* ----------------------------------------------------- command validator

\* The security part of validate_command: c is the classification it obtained
\* and a the answer of is_command_allowed.
ValidateSecurity(c, a) ==
    IF c.raised \/ a.raised
    THEN [raised |-> TRUE, is_valid |-> FALSE, warnings |-> <<>>]
    ELSE IF ~a.allowed
    THEN [raised |-> FALSE, is_valid |-> FALSE,
          warnings |-> Append(c.warnings, Warn("rejected by security policy", <<>>))]
    ELSE [raised |-> FALSE, is_valid |-> TRUE, warnings |-> c.warnings]

\* A faulty validate_command that classifies the text before it checks its
\* quoting.
validate_command_ClassifiesFirst(command, cfg) ==
    IF strip(command) = <<>>
    THEN [raised |-> FALSE, is_valid |-> FALSE,
          warnings |-> <<Warn("command is empty", <<>>)>>]
    ELSE IF check_command_safety(command, cfg).raised
    THEN [raised |-> TRUE, is_valid |-> FALSE, warnings |-> <<>>]
    ELSE IF shlex_split(command) # "ok"
    THEN [raised |-> FALSE, is_valid |-> FALSE,
          warnings |-> <<Warn("command syntax error", <<shlex_split(command)>>)>>]
    ELSE ValidateSecurity(check_command_safety(command, cfg),
                          is_command_allowed(command, cfg))

\* CommandProcessor.validate_command: [raised, is_valid, warnings].  raised
\* means an exception left the call (no value was returned).
validate_command(command, cfg) ==
    IF strip(command) = <<>>
    THEN [raised |-> FALSE, is_valid |-> FALSE,
          warnings |-> <<Warn("command is empty", <<>>)>>]
    ELSE IF shlex_split(command) # "ok"
    THEN [raised |-> FALSE, is_valid |-> FALSE,
          warnings |-> <<Warn("command syntax error", <<shlex_split(command)>>)>>]
    ELSE ValidateSecurity(check_command_safety(command, cfg),
                          is_command_allowed(command, cfg))

\* ------------------------------------------------------ execution engine

\* return_code of a timed-out execution, and of one whose spawn or
\* communication raised.
TIMEOUT_CODE == -1
FAILURE_CODE == -2

\* The wall times a real execution may measure, in time units.
ElapsedTimes == {0, 1}

\* process.returncode of a child that ended by itself: its exit status, or the
\* negated number of the signal that killed it (SIGHUP 1, SIGINT 2).
ReturnCodes == {0, 1, -1, -2}

\* What the host does with one real execution: Popen raises, the child ends
\* within the timeout, communicate raises TimeoutExpired, or communicate raises
\* another exception after the child has ended.
ExecEnvs ==
    [kind : {"spawn_error", "timeout", "communicate_error"}, rc : {0},
     stderr : {""}, time : ElapsedTimes]
    \cup
    [kind : {"exit"}, rc : ReturnCodes, stderr : {"", "child stderr"},
     time : ElapsedTimes]

KillHup == <<"k", "i", "l", "l", " ", "-", "H", "U", "P", " ", "$", "$">>
KillInt == <<"k", "i", "l", "l", " ", "-", "I", "N", "T", " ", "$", "$">>

\* process.returncode of a child that ended by itself, for a command run with
\* shell=True: an exit status, or minus the number of the signal that ended
\* the shell (a shell that sends itself SIGHUP ends with -1, SIGINT with -2).
ReturnCodesOf(command) ==
    IF command = KillHup THEN {-1}
    ELSE IF command = KillInt THEN {-2}
    ELSE ReturnCodes \ {-1, -2}

\* What the host can answer to an execution of a command.
ExecEnvsOf(command) ==
    {e \in ExecEnvs : e.kind = "exit" => e.rc \in ReturnCodesOf(command)}

CommandResult(success, return_code, stdout, stderr, execution_time, command) ==
    [success |-> success, return_code |-> return_code, stdout |-> stdout,
     stderr |-> stderr, execution_time |-> execution_time, command |-> command]

\* A faulty execute_command that derives success from an empty stderr instead
\* of the return code.
execute_command_SuccessFromStderr(command, dry_run, env) ==
    IF dry_run
    THEN [result |-> CommandResult(TRUE, 0, "[DRY RUN]", "", 0, command),
          spawned |-> FALSE, child |-> "none"]
    ELSE CASE env.kind = "spawn_error" ->
                [result |-> CommandResult(FALSE, FAILURE_CODE, "", "exec exception",
                                          env.time, command),
                 spawned |-> FALSE, child |-> "none"]
           [] env.kind = "exit" ->
                [result |-> CommandResult(env.stderr = "", env.rc, "child stdout",
                                          env.stderr, env.time, command),
                 spawned |-> TRUE, child |-> "exited"]
           [] env.kind = "timeout" ->
                [result |-> CommandResult(FALSE, TIMEOUT_CODE, "", "exec timeout",
                                          env.time, command),
                 spawned |-> TRUE, child |-> "running"]
           [] env.kind = "communicate_error" ->
                [result |-> CommandResult(FALSE, FAILURE_CODE, "", "exec exception",
                                          env.time, command),
                 spawned |-> TRUE, child |-> "exited"]

\* A faulty execute_command that tests dry_run only after the child has run:
\* it spawns the child and reports the dry-run result when the child exits.
execute_command_SpawnsInDryRun(command, dry_run, env) ==
    CASE env.kind = "spawn_error" ->
            [result |-> CommandResult(FALSE, FAILURE_CODE, "", "exec exception",
                                      env.time, command),
             spawned |-> FALSE, child |-> "none"]
      [] env.kind = "exit" ->
            [result |-> IF dry_run
                        THEN CommandResult(TRUE, 0, "[DRY RUN]", "", 0, command)
                        ELSE CommandResult(env.rc = 0, env.rc, "child stdout",
                                           env.stderr, env.time, command),
             spawned |-> TRUE, child |-> "exited"]
      [] env.kind = "timeout" ->
            [result |-> CommandResult(FALSE, TIMEOUT_CODE, "", "exec timeout",
                                      env.time, command),
             spawned |-> TRUE, child |-> "running"]
      [] env.kind = "communicate_error" ->
            [result |-> CommandResult(FALSE, FAILURE_CODE, "", "exec exception",
                                      env.time, command),
             spawned |-> TRUE, child |-> "exited"]

\* CommandProcessor.execute_command: the result it returns, whether it spawned
\* a child process, and the state of that child when the call returns.
execute_command(command, dry_run, env) ==
    IF dry_run
    THEN [result |-> CommandResult(TRUE, 0, "[DRY RUN]", "", 0, command),
          spawned |-> FALSE, child |-> "none"]
    ELSE CASE env.kind = "spawn_error" ->
                [result |-> CommandResult(FALSE, FAILURE_CODE, "", "exec exception",
                                          env.time, command),
                 spawned |-> FALSE, child |-> "none"]
           [] env.kind = "exit" ->
                [result |-> CommandResult(env.rc = 0, env.rc, "child stdout", env.stderr,
                                          env.time, command),
                 spawned |-> TRUE, child |-> "exited"]
           [] env.kind = "timeout" ->
                [result |-> CommandResult(FALSE, TIMEOUT_CODE, "", "exec timeout",
                                          env.time, command),
                 spawned |-> TRUE, child |-> "running"]
           [] env.kind = "communicate_error" ->
                [result |-> CommandResult(FALSE, FAILURE_CODE, "", "exec exception",
                                          env.time, command),
                 spawned |-> TRUE, child |-> "exited"]

\* The help commands get_command_help tries, in order, for a command.
help_commands(command) ==
    << FirstWord(command) \o <<" ", "-", "-", "h", "e", "l", "p">>,
       <<"m", "a", "n", " ">> \o FirstWord(command),
       <<"h", "e", "l", "p", " ">> \o FirstWord(command) >>

\* CommandProcessor.get_command_help: the child processes it has run when it
\* returns, when the first `tried` help commands were needed.
get_command_help(command, tried) ==
    [k \in 1..tried |->
        [by |-> "get_command_help", command |-> help_commands(command)[k],
         state |-> "exited"]]

\* ------------------------------------------------------ user interaction

EXECUTE == "execute"
MODIFY == "modify"
CANCEL == "cancel"
HELP == "help"
EXPLAIN == "explain"

UserChoice == {EXECUTE, MODIFY, CANCEL, HELP, EXPLAIN}

\* A faulty _prompt_user_choice whose lookup defaults to EXECUTE.
prompt_user_choice_DefaultsToExecute(answer) ==
    LET a == strip(lower(answer))
        choice == IF a = <<>> THEN <<"y">> ELSE a
    IN  CASE choice \in {<<"y">>, <<"y", "e", "s">>} -> EXECUTE
          [] choice \in {<<"n">>, <<"n", "o">>} -> CANCEL
          [] choice \in {<<"m">>, <<"m", "o", "d", "i", "f", "y">>} -> MODIFY
          [] choice \in {<<"h">>, <<"h", "e", "l", "p">>} -> HELP
          [] choice \in {<<"e">>, <<"e", "x", "p", "l", "a", "i", "n">>} -> EXPLAIN
          [] OTHER -> EXECUTE

\* UserInteractionManager._prompt_user_choice (plain console): the answer is
\* lower-cased and stripped, an empty one stands for "y", an unknown one cancels.
prompt_user_choice(answer) ==
    LET a == strip(lower(answer))
        choice == IF a = <<>> THEN <<"y">> ELSE a
    IN  CASE choice \in {<<"y">>, <<"y", "e", "s">>} -> EXECUTE
          [] choice \in {<<"n">>, <<"n", "o">>} -> CANCEL
          [] choice \in {<<"m">>, <<"m", "o", "d", "i", "f", "y">>} -> MODIFY
          [] choice \in {<<"h">>, <<"h", "e", "l", "p">>} -> HELP
          [] choice \in {<<"e">>, <<"e", "x", "p", "l", "a", "i", "n">>} -> EXPLAIN
          [] OTHER -> CANCEL

\* A faulty get_user_confirmation that also cancels, without prompting, a
\* command whose advisory risk level is "high".
get_user_confirmation_CancelsHigh(command_info, auto_mode, answer) ==
    IF auto_mode THEN EXECUTE
    ELSE IF lower(command_info.risk_level) \in
                {<<"c", "r", "i", "t", "i", "c", "a", "l">>, <<"h", "i", "g", "h">>}
         THEN CANCEL
         ELSE prompt_user_choice(answer)

\* A faulty get_user_confirmation that looks at the advisory risk level before
\* it looks at auto_mode.
get_user_confirmation_CriticalFirst(command_info, auto_mode, answer) ==
    IF lower(command_info.risk_level) = <<"c", "r", "i", "t", "i", "c", "a", "l">>
    THEN CANCEL
    ELSE IF auto_mode THEN EXECUTE
         ELSE prompt_user_choice(answer)

\* A faulty get_user_confirmation that compares the advisory risk level with
\* "critical" without lower-casing it.
get_user_confirmation_ExactCase(command_info, auto_mode, answer) ==
    IF auto_mode THEN EXECUTE
    ELSE IF command_info.risk_level = <<"c", "r", "i", "t", "i", "c", "a", "l">>
         THEN CANCEL
         ELSE prompt_user_choice(answer)

\* UserInteractionManager.get_user_confirmation
get_user_confirmation(command_info, auto_mode, answer) ==
    IF auto_mode THEN EXECUTE
    ELSE IF lower(command_info.risk_level) = <<"c", "r", "i", "t", "i", "c", "a", "l">>
         THEN CANCEL
         ELSE prompt_user_choice(answer)

\* UserInteractionManager.get_modified_command (plain console): None, or the
\* stripped text when it differs from the stripped current command.
get_modified_command(original_command, typed) ==
    LET modified == IF typed = <<>> THEN original_command ELSE typed IN
    IF strip(modified) # strip(original_command)
    THEN [none |-> FALSE, text |-> strip(modified)]
    ELSE [none |-> TRUE, text |-> <<>>]

\* --------------------------------------------------- confirmation protocol

\* The record of one validate_command call, made during decision number `at`
\* of the cycle (0: the validation before the loop).
Validation(at, command, v) ==
    [at |-> at, command |-> command, raised |-> v.raised, is_valid |-> v.is_valid,
     warnings |-> v.warnings]

\* The record of one decision: the choice and the command it was made for.
Decision(choice, command) == [choice |-> choice, command |-> command]

\* The state of one command-processing cycle before it starts: the locals of
\* _process_user_command (command_info, command, warnings), where it stands,
\* how it ended, and its history (decisions, validate_command calls,
\* execute_command calls).
IdleCycle ==
    [pc |-> "idle", command_info |-> [command |-> <<>>, risk_level |-> <<>>],
     command |-> <<>>, warnings |-> <<>>, outcome |-> "none",
     decisions |-> <<>>, validations |-> <<>>, executions |-> <<>>]

\* The first validation's outcome v in _process_user_command: a fault or a
\* rejection ends the cycle, an acceptance enters the confirmation loop.
AfterValidation(p, info, v) ==
    IF v.raised
    THEN [p EXCEPT !.command_info = info, !.pc = "done", !.outcome = "error",
                   !.validations = Append(@, Validation(0, info.command, v))]
    ELSE IF ~v.is_valid
    THEN [p EXCEPT !.command_info = info, !.pc = "done", !.outcome = "rejected",
                   !.validations = Append(@, Validation(0, info.command, v))]
    ELSE [p EXCEPT !.command_info = info, !.pc = "confirm",
                   !.command = info.command, !.warnings = v.warnings,
                   !.validations = Append(@, Validation(0, info.command, v))]

\* AgentCLI._process_user_command up to the confirmation loop: the generated
\* command is validated; an empty, rejected or faulting command ends the cycle.
StartCycle(p, cfg, info) ==
    IF info.command = <<>>
    THEN [p EXCEPT !.pc = "done", !.command_info = info, !.outcome = "no_command"]
    ELSE AfterValidation(p, info, validate_command(info.command, cfg))

\* A faulty MODIFY branch that makes the modified text the current command
\* before looking at the validation's verdict.
AfterRevalidation_AssignsRejected(p, text, v) ==
    IF v.raised
    THEN [p EXCEPT !.pc = "done", !.outcome = "error",
                   !.validations = Append(@, Validation(Len(p.decisions), text, v))]
    ELSE IF v.is_valid
    THEN [p EXCEPT !.command = text, !.warnings = v.warnings,
                   !.command_info = [@ EXCEPT !.command = text],
                   !.validations = Append(@, Validation(Len(p.decisions), text, v))]
    ELSE [p EXCEPT !.command = text,
                   !.validations = Append(@, Validation(Len(p.decisions), text, v))]

\* A faulty MODIFY branch that, on acceptance, updates warnings and
\* command_info['command'] but leaves the local command as it was.
AfterRevalidation_KeepsCommand(p, text, v) ==
    IF v.raised
    THEN [p EXCEPT !.pc = "done", !.outcome = "error",
                   !.validations = Append(@, Validation(Len(p.decisions), text, v))]
    ELSE IF v.is_valid
    THEN [p EXCEPT !.warnings = v.warnings,
                   !.command_info = [@ EXCEPT !.command = text],
                   !.validations = Append(@, Validation(Len(p.decisions), text, v))]
    ELSE [p EXCEPT !.validations = Append(@, Validation(Len(p.decisions), text, v))]

\* A faulty MODIFY branch that unpacks the re-validation into the local
\* warnings, so that a rejection replaces the current warnings.
AfterRevalidation_OverwritesWarnings(p, text, v) ==
    IF v.raised
    THEN [p EXCEPT !.pc = "done", !.outcome = "error",
                   !.validations = Append(@, Validation(Len(p.decisions), text, v))]
    ELSE IF v.is_valid
    THEN [p EXCEPT !.command = text, !.warnings = v.warnings,
                   !.command_info = [@ EXCEPT !.command = text],
                   !.validations = Append(@, Validation(Len(p.decisions), text, v))]
    ELSE [p EXCEPT !.warnings = v.warnings,
                   !.validations = Append(@, Validation(Len(p.decisions), text, v))]

\* A faulty MODIFY branch that, on acceptance, replaces command and warnings
\* but leaves command_info['command'] as it was.
AfterRevalidation_KeepsCommandInfo(p, text, v) ==
    IF v.raised
    THEN [p EXCEPT !.pc = "done", !.outcome = "error",
                   !.validations = Append(@, Validation(Len(p.decisions), text, v))]
    ELSE IF v.is_valid
    THEN [p EXCEPT !.command = text, !.warnings = v.warnings,
                   !.validations = Append(@, Validation(Len(p.decisions), text, v))]
    ELSE [p EXCEPT !.validations = Append(@, Validation(Len(p.decisions), text, v))]

\* A faulty MODIFY branch that catches a fault of the re-validation inside the
\* loop and goes on with the modified text as the current command.
AfterRevalidation_SwallowsFault(p, text, v) ==
    IF v.raised
    THEN [p EXCEPT !.command = text,
                   !.command_info = [@ EXCEPT !.command = text],
                   !.validations = Append(@, Validation(Len(p.decisions), text, v))]
    ELSE IF v.is_valid
    THEN [p EXCEPT !.command = text, !.warnings = v.warnings,
                   !.command_info = [@ EXCEPT !.command = text],
                   !.validations = Append(@, Validation(Len(p.decisions), text, v))]
    ELSE [p EXCEPT !.validations = Append(@, Validation(Len(p.decisions), text, v))]

\* The outcome v of re-validating the modified command text: a fault ends the
\* cycle, an acceptance replaces command, warnings and command_info['command']
\* together, a rejection changes none of them.
AfterRevalidation(p, text, v) ==
    IF v.raised
    THEN [p EXCEPT !.pc = "done", !.outcome = "error",
                   !.validations = Append(@, Validation(Len(p.decisions), text, v))]
    ELSE IF v.is_valid
    THEN [p EXCEPT !.command = text, !.warnings = v.warnings,
                   !.command_info = [@ EXCEPT !.command = text],
                   !.validations = Append(@, Validation(Len(p.decisions), text, v))]
    ELSE [p EXCEPT !.validations = Append(@, Validation(Len(p.decisions), text, v))]

\* The MODIFY branch for the answer m of get_modified_command.
ModifyWith(p, cfg, m) ==
    IF m.none \/ m.text = <<>> THEN p
    ELSE AfterRevalidation(p, m.text, validate_command(m.text, cfg))

\* The MODIFY branch of the confirmation loop.
ModifyCommand(p, cfg, typed) == ModifyWith(p, cfg, get_modified_command(p.command, typed))

\* A faulty confirmation loop whose CANCEL branch does not leave the loop.
LoopStep_CancelContinues(p, cfg, choice, typed) ==
    CASE choice = EXECUTE ->
            [p EXCEPT !.decisions = Append(@, Decision(choice, p.command)),
                      !.pc = "done", !.outcome = "executed",
                      !.executions = Append(@, [command |-> p.command,
                                                 dry_run |-> cfg.dry_run_default])]
      [] choice = MODIFY ->
            ModifyCommand([p EXCEPT !.decisions = Append(@, Decision(choice, p.command))],
                          cfg, typed)
      [] OTHER -> [p EXCEPT !.decisions = Append(@, Decision(choice, p.command))]

\* A faulty confirmation loop whose EXECUTE branch does not leave the loop.
LoopStep_ExecuteContinues(p, cfg, choice, typed) ==
    CASE choice = EXECUTE ->
            [p EXCEPT !.decisions = Append(@, Decision(choice, p.command)),
                      !.outcome = "executed",
                      !.executions = Append(@, [command |-> p.command,
                                                 dry_run |-> cfg.dry_run_default])]
      [] choice = MODIFY ->
            ModifyCommand([p EXCEPT !.decisions = Append(@, Decision(choice, p.command))],
                          cfg, typed)
      [] choice = CANCEL ->
            [p EXCEPT !.decisions = Append(@, Decision(choice, p.command)),
                      !.pc = "done", !.outcome = "cancelled"]
      [] OTHER -> [p EXCEPT !.decisions = Append(@, Decision(choice, p.command))]

\* A faulty confirmation loop in which an EXPLAIN decision ends the cycle with
\* an error, as if the help lookup's failure were not caught.
LoopStep_ExplainEnds(p, cfg, choice, typed) ==
    CASE choice = EXECUTE ->
            [p EXCEPT !.decisions = Append(@, Decision(choice, p.command)),
                      !.pc = "done", !.outcome = "executed",
                      !.executions = Append(@, [command |-> p.command,
                                                 dry_run |-> cfg.dry_run_default])]
      [] choice = MODIFY ->
            ModifyCommand([p EXCEPT !.decisions = Append(@, Decision(choice, p.command))],
                          cfg, typed)
      [] choice = CANCEL ->
            [p EXCEPT !.decisions = Append(@, Decision(choice, p.command)),
                      !.pc = "done", !.outcome = "cancelled"]
      [] choice = EXPLAIN ->
            [p EXCEPT !.decisions = Append(@, Decision(choice, p.command)),
                      !.pc = "done", !.outcome = "error"]
      [] OTHER -> [p EXCEPT !.decisions = Append(@, Decision(choice, p.command))]

\* One iteration of the confirmation loop of _process_user_command, for the
\* choice get_user_confirmation returned.
LoopStep(p, cfg, choice, typed) ==
    CASE choice = EXECUTE ->
            [p EXCEPT !.decisions = Append(@, Decision(choice, p.command)),
                      !.pc = "done", !.outcome = "executed",
                      !.executions = Append(@, [command |-> p.command,
                                                 dry_run |-> cfg.dry_run_default])]
      [] choice = MODIFY ->
            ModifyCommand([p EXCEPT !.decisions = Append(@, Decision(choice, p.command))],
                          cfg, typed)
      [] choice = CANCEL ->
            [p EXCEPT !.decisions = Append(@, Decision(choice, p.command)),
                      !.pc = "done", !.outcome = "cancelled"]
      [] OTHER -> [p EXCEPT !.decisions = Append(@, Decision(choice, p.command))]

\* ------------------------------------------------------------ the inputs

\* The command texts the generator may return (the empty one included).
GeneratedCommands ==
    { <<>>,
      <<"l", "s", " ", "-", "l", "a", " ", "/", "t", "m", "p">>,
      <<"c", "p", " ", "a", " ", "b">>,
      <<"r", "m", " ", "-", "r", "f", " ", "/">>,
      <<"a", "p", "t", " ", "u", "p", "d", "a", "t", "e">>,
      <<"e", "c", "h", "o", " ", "'", "a">>,
      <<" ", " ">> }

\* The advisory risk_level values the generator may return.
AdvisoryLevels ==
    { <<"l", "o", "w">>,
      <<"h", "i", "g", "h">>,
      <<"C", "r", "i", "t", "i", "c", "a", "l">> }

\* What the user may type as a replacement command (nothing included).
TypedTexts ==
    { <<>>,
      <<" ", " ">>,
      <<"e", "c", "h", "o", " ", "h", "i">>,
      <<" ", "l", "s", " ", "-", "l", "a", " ", "/", "t", "m", "p", " ">>,
      <<"r", "m", " ", "-", "r", "f", " ", "/">>,
      <<"a", "p", "t", " ", "u", "p", "d", "a", "t", "e">>,
      <<"e", "c", "h", "o", " ", "'", "a">> }

\* What the user may answer at the prompt.
Answers ==
    { <<>>,
      <<"y">>,
      <<"y", "e", "s">>,
      <<" ", "Y", " ">>,
      <<"n">>,
      <<"n", "o">>,
      <<"m">>,
      <<"m", "o", "d", "i", "f", "y">>,
      <<"h">>,
      <<"h", "e", "l", "p">>,
      <<"e">>,
      <<"e", "x", "p", "l", "a", "i", "n">>,
      <<"x">> }

\* The allowed_dirs lists of the policies considered.
AllowedDirLists == { <<>>, << <<"/", "h", "o", "m", "e">> >> }

\* The configurations: the security policy and the execution settings.
Configs ==
    [strict_mode : BOOLEAN, allow_sudo : BOOLEAN, allowed_dirs : AllowedDirLists,
     dry_run_default : BOOLEAN]

\* The configurations a cycle is run under: the default policy (strict, no
\* sudo) and the most permissive one, with each allow-list and dry-run setting.
CycleConfigs == {c \in Configs : c.strict_mode = ~c.allow_sudo}

\* A largest number of decisions that keep the confirmation loop running.
MaxDecisions == 2

\* ------------------------------------------------------------- the state

VARIABLES
    config,      \* the configuration, read-only during a cycle
    auto_mode,   \* AgentCLI.auto_mode
    cli,         \* the cycle of _process_user_command: its locals and its history
    result,      \* the CommandResult execute_command returned, if any
    host,        \* what the host did with that execution, if it was a real one
    displayed,   \* what display_execution_result was given, if anything
    children,    \* the child processes spawned so far, with their state
    twin,        \* a second cycle, fed the same inputs but another advisory level
    probe,       \* the command text a single call is applied to
    returned     \* that call and what it returned

vars == <<config, auto_mode, cli, result, host, displayed, children, twin, probe, returned>>

\* No call has been made on the probe.
NoCall == [op |-> "none"]

Init ==
    /\ config \in CycleConfigs
    /\ auto_mode \in BOOLEAN
    /\ cli = IdleCycle
    /\ result = <<>>
    /\ host = <<>>
    /\ displayed = <<>>
    /\ children = <<>>
    /\ twin = IdleCycle
    /\ probe = <<>>
    /\ returned = NoCall

\* _process_user_command from the generator's answer to the confirmation loop.
ProcessUserCommand ==
    /\ cli.pc = "idle"
    /\ \E command \in GeneratedCommands, risk_level \in AdvisoryLevels :
          cli' = StartCycle(cli, config, [command |-> command, risk_level |-> risk_level])
    /\ UNCHANGED <<config, auto_mode, result, host, displayed, children, twin, probe, returned>>

\* A faulty _execute_command that runs the command a second time when the
\* first run spawned a child and did not succeed.
Executed_RetriesFailure(r, env) ==
    /\ result' = <<r.result>>
    /\ host' = IF config.dry_run_default THEN <<>> ELSE <<env>>
    /\ displayed' = <<[result |-> r.result, warnings |-> cli.warnings]>>
    /\ children' = IF r.spawned
                   THEN IF r.result.success
                        THEN Append(children, [by |-> "execute_command",
                                               command |-> cli.command, state |-> r.child])
                        ELSE children \o
                             <<[by |-> "execute_command", command |-> cli.command,
                                state |-> r.child],
                               [by |-> "execute_command", command |-> cli.command,
                                state |-> r.child]>>
                   ELSE children

\* The effects of _execute_command, r being what execute_command did under
\* env: the result is kept and displayed with the current warnings, a spawned
\* child is recorded.
Executed(r, env) ==
    /\ result' = <<r.result>>
    /\ host' = IF config.dry_run_default THEN <<>> ELSE <<env>>
    /\ displayed' = <<[result |-> r.result, warnings |-> cli.warnings]>>
    /\ children' = IF r.spawned
                   THEN Append(children, [by |-> "execute_command",
                                          command |-> cli.command, state |-> r.child])
                   ELSE children

\* A loop iteration whose decision is EXECUTE: _execute_command runs the
\* command (or its dry run) and displays the result with the current warnings.
ConfirmExecute ==
    /\ cli.pc = "confirm"
    /\ \E answer \in Answers, env \in ExecEnvsOf(cli.command) :
          /\ get_user_confirmation(cli.command_info, auto_mode, answer) = EXECUTE
          /\ cli' = LoopStep(cli, config, EXECUTE, <<>>)
          /\ Executed(execute_command(cli.command, config.dry_run_default, env), env)
    /\ UNCHANGED <<config, auto_mode, twin, probe, returned>>

\* A loop iteration whose decision is MODIFY.
ConfirmModify ==
    /\ cli.pc = "confirm"
    /\ Len(cli.decisions) < MaxDecisions
    /\ \E answer \in Answers, typed \in TypedTexts :
          /\ get_user_confirmation(cli.command_info, auto_mode, answer) = MODIFY
          /\ cli' = LoopStep(cli, config, MODIFY, typed)
    /\ UNCHANGED <<config, auto_mode, result, host, displayed, children, twin, probe, returned>>

\* A loop iteration whose decision is EXPLAIN: get_command_help runs help
\* commands for the first word of the current command.
ConfirmExplain ==
    /\ cli.pc = "confirm"
    /\ Len(cli.decisions) < MaxDecisions
    /\ \E answer \in Answers, tried \in 1..Len(help_commands(cli.command)) :
          /\ get_user_confirmation(cli.command_info, auto_mode, answer) = EXPLAIN
          /\ cli' = LoopStep(cli, config, EXPLAIN, <<>>)
          /\ children' = children \o get_command_help(cli.command, tried)
    /\ UNCHANGED <<config, auto_mode, result, host, displayed, twin, probe, returned>>

\* A loop iteration whose decision is HELP.
ConfirmHelp ==
    /\ cli.pc = "confirm"
    /\ Len(cli.decisions) < MaxDecisions
    /\ \E answer \in Answers :
          /\ get_user_confirmation(cli.command_info, auto_mode, answer) = HELP
          /\ cli' = LoopStep(cli, config, HELP, <<>>)
    /\ UNCHANGED <<config, auto_mode, result, host, displayed, children, twin, probe, returned>>

\* A loop iteration whose decision is CANCEL.
ConfirmCancel ==
    /\ cli.pc = "confirm"
    /\ \E answer \in Answers :
          /\ get_user_confirmation(cli.command_info, auto_mode, answer) = CANCEL
          /\ cli' = LoopStep(cli, config, CANCEL, <<>>)
    /\ UNCHANGED <<config, auto_mode, result, host, displayed, children, twin, probe, returned>>

\* A child process that outlived the call that spawned it ends by itself.
ChildExits ==
    /\ \E i \in 1..Len(children) :
          /\ children[i].state = "running"
          /\ children' = [children EXCEPT ![i].state = "exited"]
    /\ UNCHANGED <<config, auto_mode, cli, result, host, displayed, twin, probe, returned>>

Next ==
    \/ ProcessUserCommand
    \/ ConfirmExecute
    \/ ConfirmModify
    \/ ConfirmExplain
    \/ ConfirmHelp
    \/ ConfirmCancel
    \/ ChildExits

\* One command-processing cycle of the CLI.
Spec == Init /\ [][Next]_vars

\* ------------------------------------------------- single calls on a probe

\* A largest number of whitespace characters between two tokens of a probe.
MaxSpaces == 1

\* The runs of lo to hi blanks and tabs.
Blanks(lo, hi) == UNION {[1..n -> {" ", "\t"}] : n \in lo..hi}

\* What a probe text may start with before its tokens.
ProbePrefixes ==
    { <<>>,
      <<"x", " ">> }

\* What a probe text may end with after its tokens.
ProbeSuffixes ==
    { <<>>,
      <<"u", "s", "r">>,
      <<" ", "|", " ", "s", "h">>,
      <<" ", "'">> }

\* The texts that contain `rm -rf /`, in either letter case, with blanks or tabs
\* between rm and -rf and, possibly, between -rf and the slash.
RmRfRootTexts ==
    { pre \o rm \o b1 \o rf \o b2 \o <<"/">> \o suf :
        pre \in ProbePrefixes,
        rm \in {<<"r", "m">>, <<"R", "m">>},
        b1 \in Blanks(1, MaxSpaces),
        rf \in {<<"-", "r", "f">>, <<"-", "R", "F">>},
        b2 \in Blanks(0, MaxSpaces),
        suf \in ProbeSuffixes }

\* The texts that contain a name of SUDO_COMMANDS: alone, as an argument of
\* sudo, and inside a longer word.
SudoTexts ==
    { pre \o SUDO_COMMANDS[k] \o suf :
        k \in 1..Len(SUDO_COMMANDS),
        pre \in {<<>>, <<"s", "u", "d", "o", " ">>, <<"x">>},
        suf \in {<<>>, <<" ", "x">>} }

\* Further probe texts: harmless, empty, ill-quoted, and one of each other rule.
OtherTexts ==
    { <<"l", "s", " ", "-", "l", "a", " ", "/", "t", "m", "p">>,
      <<"s", "u", "d", "o", " ", "s", "y", "s", "t", "e", "m", "c", "t", "l", " ", "s", "t", "o", "p", " ", "n", "g", "i", "n", "x">>,
      <<"e", "c", "h", "o", " ", "h", "i">>,
      <<>>,
      <<" ", " ">>,
      <<"e", "c", "h", "o", " ", "'", "a">>,
      <<"c", "p", " ", "a", " ", "b">>,
      <<"c", "p", " ", "a", " ", "/", "h", "o", "m", "e", "/", "b">>,
      <<"c", "a", "t", " ", "/", "e", "t", "c", "/", "p", "a", "s", "s", "w", "d">>,
      <<"t", "o", "u", "c", "h", " ", "/", "e", "t", "c", "/", "x">>,
      <<"c", "u", "r", "l", " ", "x">>,
      <<"a", " ", "|", " ", "b">>,
      KillHup,
      KillInt,
      <<"\t", "\n">>,
      <<"e", "c", "h", "o", " ", "'", "a", "'">>,
      <<"e", "c", "h", "o", " ", "\"", "a">>,
      <<"a", "p", "t", " ", "'", "x">> }

\* Texts typed as the answer to the confirmation prompt: those of the cycles,
\* and some in other letter cases, padded, or unknown.
ProbeAnswers ==
    Answers \cup
    { <<"Y", "E", "S">>,
      <<"\t", "N", "o", " ">>,
      <<" ", "Q", " ">>,
      <<"y", "y">>,
      <<"y", " ", "e", "s">>,
      <<"E", "x", "p", "l", "a", "i", "n">> }

ProbeCommands == RmRfRootTexts \cup SudoTexts \cup OtherTexts \cup ProbeAnswers

\* The policies a single call is made under (the execution settings play no
\* part in classification and validation).
ProbeConfigs == {c \in Configs : ~c.dry_run_default}

\* No execution environment: the call was a dry run.
NoEnv == [kind |-> "none", rc |-> 0, stderr |-> "", time |-> 0]

\* No cycle is run: single calls are made on the probe.
NoCycle == [IdleCycle EXCEPT !.pc = "off"]

InitChecker ==
    /\ config \in ProbeConfigs
    /\ probe \in ProbeCommands
    /\ returned = NoCall
    /\ auto_mode = FALSE
    /\ cli = NoCycle
    /\ twin = NoCycle
    /\ result = <<>>
    /\ host = <<>>
    /\ displayed = <<>>
    /\ children = <<>>

\* SecurityChecker.check_command_safety applied to the probe.
CallCheckCommandSafety ==
    /\ cli.pc = "off"
    /\ returned = NoCall
    /\ returned' = [op |-> "check_command_safety", dry_run |-> FALSE, env |-> NoEnv,
                    value |-> check_command_safety(probe, config)]
    /\ UNCHANGED <<config, auto_mode, cli, result, host, displayed, children, twin, probe>>

\* CommandProcessor.validate_command applied to the probe.
CallValidateCommand ==
    /\ cli.pc = "off"
    /\ returned = NoCall
    /\ returned' = [op |-> "validate_command", dry_run |-> FALSE, env |-> NoEnv,
                    value |-> validate_command(probe, config)]
    /\ UNCHANGED <<config, auto_mode, cli, result, host, displayed, children, twin, probe>>

\* CommandProcessor.execute_command applied to the probe, as a dry run or as a
\* real execution in some environment.
CallExecuteCommand ==
    /\ cli.pc = "off"
    /\ returned = NoCall
    /\ \E dry_run \in BOOLEAN, env \in ExecEnvsOf(probe) :
          returned' = [op |-> "execute_command", dry_run |-> dry_run,
                       env |-> IF dry_run THEN NoEnv ELSE env,
                       value |-> execute_command(probe, dry_run, env)]
    /\ UNCHANGED <<config, auto_mode, cli, result, host, displayed, children, twin, probe>>

\* A faulty second call whose findings list is shared with the first call
\* instead of being created afresh.
CallCheckCommandSafetyAgain_SharedFindings ==
    /\ cli.pc = "off"
    /\ returned.op = "check_command_safety"
    /\ returned' =
          [op |-> "check_command_safety_again", dry_run |-> FALSE, env |-> NoEnv,
           first |-> returned.value,
           value |-> CheckPipes(CheckNetwork(CheckFiles(CheckSudo(CheckDangerous(
                        [raised |-> returned.value.raised, risk_level |-> LOW,
                         warnings |-> returned.value.warnings],
                        probe), probe, config), probe, config), probe), probe)]
    /\ UNCHANGED <<config, auto_mode, cli, result, host, displayed, children, twin, probe>>

\* SecurityChecker.check_command_safety applied to the probe a second time, on
\* the same SecurityChecker: the call reads the policy fields and the rule
\* tables, assigns none of them, and starts from a new findings list.
CallCheckCommandSafetyAgain ==
    /\ cli.pc = "off"
    /\ returned.op = "check_command_safety"
    /\ returned' =
          [op |-> "check_command_safety_again", dry_run |-> FALSE, env |-> NoEnv,
           first |-> returned.value,
           value |-> check_command_safety(probe, config)]
    /\ UNCHANGED <<config, auto_mode, cli, result, host, displayed, children, twin, probe>>

\* The texts a second classification, after the probe's, is made of.
ComparedTexts ==
    { <<"l", "s", " ", "-", "l", "a", " ", "/", "t", "m", "p">>,
      <<"r", "m", " ", "-", "r", "f", " ", "/">>,
      <<"c", "u", "r", "l", " ", "x">>,
      <<"a", "p", "t">> }

\* SecurityChecker.check_command_safety applied to the probe and then, on the
\* same SecurityChecker, to another text.
CallCheckCommandSafetyOther ==
    /\ cli.pc = "off"
    /\ returned.op = "check_command_safety"
    /\ \E other \in ComparedTexts :
          returned' =
              [op |-> "check_command_safety_other", dry_run |-> FALSE, env |-> NoEnv,
               first |-> returned.value, other |-> other,
               value |-> check_command_safety(other, config)]
    /\ UNCHANGED <<config, auto_mode, cli, result, host, displayed, children, twin, probe>>

\* UserInteractionManager._prompt_user_choice when the probe is what the user
\* types at the prompt.
CallPromptUserChoice ==
    /\ cli.pc = "off"
    /\ returned = NoCall
    /\ returned' = [op |-> "_prompt_user_choice", dry_run |-> FALSE, env |-> NoEnv,
                    value |-> prompt_user_choice(probe)]
    /\ UNCHANGED <<config, auto_mode, cli, result, host, displayed, children, twin, probe>>

NextChecker ==
    \/ CallPromptUserChoice
    \/ CallCheckCommandSafety
    \/ CallCheckCommandSafetyAgain
    \/ CallCheckCommandSafetyOther
    \/ CallValidateCommand
    \/ CallExecuteCommand

\* Single calls of the classifier, the validator and the engine.
SpecChecker == InitChecker /\ [][NextChecker]_vars

\* -------------------------------------------------- two cycles side by side

\* The step of one of the two cycles on the shared inputs: a cycle that is at
\* the prompt takes its loop iteration, one that has ended stays.
PairMove(p, answer, typed) ==
    IF p.pc = "confirm"
    THEN LoopStep(p, config, get_user_confirmation(p.command_info, auto_mode, answer), typed)
    ELSE p

\* Whether a cycle at the prompt may take the answer within the bound on the
\* decisions that keep the loop running.
PairMayMove(p, answer) ==
    \/ p.pc # "confirm"
    \/ Len(p.decisions) < MaxDecisions
    \/ get_user_confirmation(p.command_info, auto_mode, answer) \in {EXECUTE, CANCEL}

\* The pairs of different advisory levels, each pair in one order.
AdvisoryPairs ==
    { << <<"l", "o", "w">>, <<"h", "i", "g", "h">> >>,
      << <<"l", "o", "w">>, <<"C", "r", "i", "t", "i", "c", "a", "l">> >>,
      << <<"h", "i", "g", "h">>, <<"C", "r", "i", "t", "i", "c", "a", "l">> >> }

\* Both cycles start from the same generated command, each with its own
\* advisory risk level.
PairStart ==
    /\ cli.pc = "idle"
    /\ twin.pc = "idle"
    /\ \E command \in GeneratedCommands, rr \in AdvisoryPairs :
          /\ cli' = StartCycle(cli, config, [command |-> command, risk_level |-> rr[1]])
          /\ twin' = StartCycle(twin, config, [command |-> command, risk_level |-> rr[2]])
    /\ UNCHANGED <<config, auto_mode, result, host, displayed, children, probe, returned>>

\* The texts the user may be asked to type after the answer: some, when a
\* cycle at the prompt takes the answer for MODIFY; none otherwise.
PairTyped(answer) ==
    IF \E p \in {cli, twin} :
          /\ p.pc = "confirm"
          /\ get_user_confirmation(p.command_info, auto_mode, answer) = MODIFY
    THEN TypedTexts
    ELSE {<<>>}

\* Both cycles are given the same answer and the same typed text.
PairStep ==
    /\ cli.pc = "confirm" \/ twin.pc = "confirm"
    /\ \E answer \in Answers :
          /\ PairMayMove(cli, answer)
          /\ PairMayMove(twin, answer)
          /\ \E typed \in PairTyped(answer) :
                /\ cli' = PairMove(cli, answer, typed)
                /\ twin' = PairMove(twin, answer, typed)
    /\ UNCHANGED <<config, auto_mode, result, host, displayed, children, probe, returned>>

NextPair ==
    \/ PairStart
    \/ PairStep

\* Two cycles that differ only in the generator's advisory risk level.
SpecPair == Init /\ [][NextPair]_vars

\* The cycle and the single calls together.
SpecAll == (Init \/ InitChecker) /\ [][Next \/ NextChecker]_vars

\* ------------------------------------------------------------ properties

\* The latest validate_command call of cycle p on a text: its place in the
\* history, 0 when the text was never validated.
LastValidationOf(p, text) ==
    LET ks == {k \in 1..Len(p.validations) : p.validations[k].command = text}
    IN  IF ks = {} THEN 0 ELSE CHOOSE k \in ks : \A j \in ks : j <= k

\* C1: a rejected command never runs.  Every text execute_command was called
\* with is one whose most recent validate_command call returned accepted=true,
\* whatever decisions were taken before.
C1_RejectedNeverRuns ==
    \A i \in 1..Len(cli.executions) :
        LET k == LastValidationOf(cli, cli.executions[i].command) IN
        /\ k > 0
        /\ ~cli.validations[k].raised
        /\ cli.validations[k].is_valid

\* A command ran in a cycle in which a MODIFY replacement had been rejected.
C1_Witness ==
    /\ cli.outcome = "executed"
    /\ \E k \in 1..Len(cli.validations) :
          ~cli.validations[k].raised /\ ~cli.validations[k].is_valid

\* What the first validation of a cycle said of the generated command.
FirstVerdict(p) ==
    IF p.validations = <<>> THEN "none"
    ELSE IF p.validations[1].raised THEN "raised"
    ELSE IF p.validations[1].is_valid THEN "accepted"
    ELSE "rejected"

\* The advisory risk level of a cycle is "critical", in any letter case.
AdvisoryCritical(p) ==
    lower(p.command_info.risk_level) = <<"c", "r", "i", "t", "i", "c", "a", "l">>

C3_RmRfRootIsCritical ==
    (probe \in RmRfRootTexts) =>
        /\ (returned.op = "check_command_safety") =>
              ~returned.value.raised /\ returned.value.risk_level = CRITICAL
        /\ (returned.op = "validate_command") =>
              ~returned.value.raised /\ ~returned.value.is_valid

\* C4: for every text containing a name of SUDO_COMMANDS, with allow_sudo=false,
\* check_command_safety returns HIGH or more; validate_command rejects under
\* strict_mode and accepts with a warning otherwise.
C4_PrivilegedIsHigh ==
    (probe \in SudoTexts /\ ~config.allow_sudo) =>
        /\ (returned.op = "check_command_safety") =>
              ~returned.value.raised /\ returned.value.risk_level \in {HIGH, CRITICAL}
        /\ (returned.op = "validate_command" /\ config.strict_mode) =>
              ~returned.value.raised /\ ~returned.value.is_valid
        /\ (returned.op = "validate_command" /\ ~config.strict_mode) =>
              /\ ~returned.value.raised
              /\ returned.value.is_valid
              /\ returned.value.warnings # <<>>

SudoSystemctlStopNginx ==
    <<"s", "u", "d", "o", " ", "s", "y", "s", "t", "e", "m", "c", "t", "l", " ",
      "s", "t", "o", "p", " ", "n", "g", "i", "n", "x">>

\* C5: "sudo systemctl stop nginx" under strict_mode=true, allow_sudo=false is
\* classified exactly HIGH with a privileged-command finding, and
\* validate_command returns accepted=false.
C5_StopNginxScenario ==
    (probe = SudoSystemctlStopNginx /\ config.strict_mode /\ ~config.allow_sudo) =>
        /\ (returned.op = "check_command_safety") =>
              /\ ~returned.value.raised
              /\ returned.value.risk_level = HIGH
              /\ \E k \in 1..Len(returned.value.warnings) :
                    returned.value.warnings[k].msg = "needs admin rights, sudo not allowed"
        /\ (returned.op = "validate_command") =>
              ~returned.value.raised /\ ~returned.value.is_valid

LsLaTmp == <<"l", "s", " ", "-", "l", "a", " ", "/", "t", "m", "p">>

\* The policy of the end-to-end scenarios, with an empty allow-list.
ScenarioPolicy ==
    config.strict_mode /\ ~config.allow_sudo /\ config.allowed_dirs = <<>>

\* C6: "ls -la /tmp" under strict_mode=true, allow_sudo=false and an empty
\* allow-list is classified LOW with no findings, validated as accepted with
\* no warnings, and a real execution whose child exits 0 yields success=true,
\* return_code=0.
C6_ListTmpScenario ==
    (probe = LsLaTmp /\ ScenarioPolicy) =>
        /\ (returned.op = "check_command_safety") =>
              /\ ~returned.value.raised
              /\ returned.value.risk_level = LOW
              /\ returned.value.warnings = <<>>
        /\ (returned.op = "validate_command") =>
              /\ ~returned.value.raised
              /\ returned.value.is_valid
              /\ returned.value.warnings = <<>>
        /\ (/\ returned.op = "execute_command"
            /\ ~returned.dry_run
            /\ returned.env.kind = "exit"
            /\ returned.env.rc = 0) =>
              /\ returned.value.result.success
              /\ returned.value.result.return_code = 0

\* "ls -la /tmp" was really executed under the scenario's policy, the child
\* exited 0 and had written to its stderr.
C6_Witness ==
    /\ probe = LsLaTmp
    /\ ScenarioPolicy
    /\ returned.op = "execute_command"
    /\ ~returned.dry_run
    /\ returned.env.kind = "exit"
    /\ returned.env.rc = 0
    /\ returned.env.stderr # ""

\* C7: the dry-run invariant.  execute_command(command, dry_run=true) spawns
\* no process and returns success=true, return_code=0, empty stderr,
\* execution_time=0 and the command it was given, for every text and policy;
\* and with dry_run_default=true no decision sequence of a cycle makes
\* execute_command spawn a process.
C7_DryRunInvariant ==
    /\ (returned.op = "execute_command" /\ returned.dry_run) =>
          /\ ~returned.value.spawned
          /\ returned.value.child = "none"
          /\ returned.value.result.success
          /\ returned.value.result.return_code = 0
          /\ returned.value.result.stderr = ""
          /\ returned.value.result.execution_time = 0
          /\ returned.value.result.command = probe
    /\ (cli.pc # "off" /\ config.dry_run_default) =>
          /\ \A i \in 1..Len(children) : children[i].by # "execute_command"
          /\ \A i \in 1..Len(cli.executions) : cli.executions[i].dry_run
          /\ result # <<>> =>
                /\ result[1].success
                /\ result[1].return_code = 0
                /\ result[1].stderr = ""
                /\ result[1].execution_time = 0
                /\ result[1].command = cli.command

\* With dry_run_default=true a cycle reached EXECUTE after an accepted MODIFY.
C7_Witness ==
    /\ config.dry_run_default
    /\ cli.outcome = "executed"
    /\ Len(cli.validations) > 1
    /\ result # <<>>

\* C8: once execute_command has returned the timeout sentinel for an execution
\* that timed out, the child it spawned is no longer running.
C8_TimeoutKillsChild ==
    (/\ result # <<>>
     /\ host # <<>>
     /\ host[1].kind = "timeout"
     /\ result[1].return_code = TIMEOUT_CODE) =>
        \A i \in 1..Len(children) :
            children[i].by = "execute_command" => children[i].state # "running"

\* C9: the sentinel return codes are unambiguous.  A result has return_code -1
\* exactly when the execution timed out and -2 exactly when spawning or
\* communicating raised; both come with success=false, and a child that ended
\* by itself (exit status or signal) yields neither.
C9_SentinelsUnambiguous ==
    (returned.op = "execute_command" /\ ~returned.dry_run) =>
        /\ TIMEOUT_CODE # FAILURE_CODE
        /\ (returned.value.result.return_code = TIMEOUT_CODE)
              <=> (returned.env.kind = "timeout")
        /\ (returned.value.result.return_code = FAILURE_CODE)
              <=> (returned.env.kind \in {"spawn_error", "communicate_error"})
        /\ (returned.value.result.return_code \in {TIMEOUT_CODE, FAILURE_CODE})
              => ~returned.value.result.success
        /\ (returned.env.kind = "exit")
              => returned.value.result.return_code \notin {TIMEOUT_CODE, FAILURE_CODE}

\* The validate_command calls of cycle p made during its decision number n.
ValidationsAt(p, n) == {k \in 1..Len(p.validations) : p.validations[k].at = n}

\* The last two decisions of the cycle were a MODIFY whose replacement
\* validate_command accepted, then EXECUTE.
ModifiedThenExecuted ==
    LET n == Len(cli.decisions) IN
    /\ n >= 2
    /\ cli.decisions[n].choice = EXECUTE
    /\ cli.decisions[n - 1].choice = MODIFY
    /\ \E k \in ValidationsAt(cli, n - 1) : cli.validations[k].is_valid

\* C10: after MODIFY with an accepted replacement followed by EXECUTE the cycle
\* has ended in EXECUTED, execute_command was called once, with the modified
\* text and not the text the MODIFY was made for, and the warnings displayed
\* with the result are those of the modified text.
C10_ModifyThenExecute ==
    ModifiedThenExecuted =>
        LET n == Len(cli.decisions) IN
        /\ cli.pc = "done"
        /\ cli.outcome = "executed"
        /\ \A k \in ValidationsAt(cli, n - 1) :
              /\ cli.executions = <<[command |-> cli.validations[k].command,
                                     dry_run |-> config.dry_run_default]>>
              /\ cli.validations[k].command # cli.decisions[n - 1].command
              /\ result # <<>>
              /\ result[1].command = cli.validations[k].command
              /\ displayed = <<[result |-> result[1],
                                warnings |-> cli.validations[k].warnings]>>

\* "ls -la /tmp" was modified to "echo hi", which was then really executed.
C10_Witness ==
    /\ ModifiedThenExecuted
    /\ ~config.dry_run_default
    /\ cli.decisions[Len(cli.decisions) - 1].command = LsLaTmp
    /\ cli.command = <<"e", "c", "h", "o", " ", "h", "i">>

\* The validate_command calls of cycle p on a MODIFY replacement that returned
\* accepted=false.
RejectedReplacements(p) ==
    {k \in 1..Len(p.validations) :
        /\ p.validations[k].at >= 1
        /\ ~p.validations[k].raised
        /\ ~p.validations[k].is_valid}

\* A step of the cycle in which a MODIFY replacement was validated and rejected.
RejectedModifyStep ==
    /\ Len(cli'.validations) = Len(cli.validations) + 1
    /\ Len(cli'.validations) \in RejectedReplacements(cli')

\* C11: a MODIFY whose replacement validate_command rejects leaves the cycle
\* awaiting a decision with the previous command, the previous warnings and
\* command_info['command'] unchanged, and runs nothing; the next decision is
\* made for the previous command, and no text execute_command is called with
\* is a rejected replacement.
C11_RejectedModifyKeepsCommand ==
    /\ [][RejectedModifyStep =>
            /\ cli'.pc = "confirm"
            /\ cli'.command = cli.command
            /\ cli'.warnings = cli.warnings
            /\ cli'.command_info = cli.command_info
            /\ cli'.executions = cli.executions]_vars
    /\ [](\A k \in RejectedReplacements(cli) :
            LET n == cli.validations[k].at IN
            /\ n < Len(cli.decisions) =>
                  cli.decisions[n + 1].command = cli.decisions[n].command
            /\ \A i \in 1..Len(cli.executions) :
                  cli.executions[i].command # cli.validations[k].command)

\* The first decision was a MODIFY whose replacement was rejected, the second
\* an EXECUTE, which ran the generated command.
C11_Witness ==
    /\ Len(cli.decisions) = 2
    /\ cli.decisions[1].choice = MODIFY
    /\ cli.decisions[2].choice = EXECUTE
    /\ RejectedReplacements(cli) # {}
    /\ cli.executions # <<>>
    /\ cli.executions[1].command = cli.validations[1].command

\* C12: a CANCEL decision is the last decision of its cycle: the cycle has
\* ended as cancelled, execute_command was not called in it and spawned no
\* child, whatever decisions preceded the CANCEL.
C12_CancelIsTerminal ==
    \A i \in 1..Len(cli.decisions) :
        cli.decisions[i].choice = CANCEL =>
            /\ i = Len(cli.decisions)
            /\ cli.pc = "done"
            /\ cli.outcome = "cancelled"
            /\ cli.executions = <<>>
            /\ result = <<>>
            /\ \A j \in 1..Len(children) : children[j].by # "execute_command"

\* A cycle was cancelled after an accepted MODIFY and another decision.
C12_Witness ==
    /\ Len(cli.decisions) = 3
    /\ cli.decisions[1].choice = MODIFY
    /\ cli.decisions[2].choice \in {EXPLAIN, HELP}
    /\ cli.decisions[3].choice = CANCEL
    /\ Len(cli.validations) = 2
    /\ cli.validations[2].is_valid

\* The cycle has produced a single ExecutionResult: execute_command was called
\* once, by the last decision, and its result was displayed.
EndedExecuted ==
    /\ Len(cli.executions) = 1
    /\ Len(result) = 1
    /\ Len(displayed) = 1
    /\ cli.decisions # <<>>
    /\ cli.decisions[Len(cli.decisions)].choice = EXECUTE

\* The cycle was explicitly cancelled by its last decision.
EndedCancelled ==
    /\ cli.decisions # <<>>
    /\ cli.decisions[Len(cli.decisions)].choice = CANCEL

\* The generated command was rejected by validate_command before any decision.
EndedRejected ==
    /\ Len(cli.validations) = 1
    /\ ~cli.validations[1].raised
    /\ ~cli.validations[1].is_valid
    /\ cli.decisions = <<>>

\* A validate_command call of the cycle raised, and the fault was reported.
EndedFaulted ==
    /\ cli.validations # <<>>
    /\ cli.validations[Len(cli.validations)].raised

\* The generator returned no command text.
EndedNoCommand ==
    /\ cli.command_info.command = <<>>
    /\ cli.validations = <<>>

\* C13 as stated: every ended cycle of a command that entered the pipeline has
\* produced a single ExecutionResult or was explicitly cancelled, not both,
\* and execute_command is never called twice.
C13_ExecutionOrCancellation ==
    /\ Len(cli.executions) <= 1
    /\ (cli.pc = "done" /\ ~EndedNoCommand) =>
          /\ EndedExecuted \/ EndedCancelled
          /\ ~(EndedExecuted /\ EndedCancelled)

\* C13 as amended: execute_command is never called twice in a cycle, and every
\* ended cycle of a command that entered the pipeline ended in exactly one of
\* four ways: a single ExecutionResult, an explicit cancellation, a rejection
\* of the generated command by validation, or a reported fault of validation;
\* only the first of them has called execute_command.
C13_OneEndingOfFour ==
    /\ Len(cli.executions) <= 1
    /\ Len(result) <= 1
    /\ (cli.pc = "done" /\ ~EndedNoCommand) =>
          /\ Cardinality({e \in {"executed", "cancelled", "rejected", "error"} :
                \/ e = "executed" /\ EndedExecuted
                \/ e = "cancelled" /\ EndedCancelled
                \/ e = "rejected" /\ EndedRejected
                \/ e = "error" /\ EndedFaulted}) = 1
          /\ cli.outcome = "executed" <=> EndedExecuted
          /\ cli.outcome = "cancelled" <=> EndedCancelled
          /\ cli.outcome = "rejected" <=> EndedRejected
          /\ cli.outcome = "error" <=> EndedFaulted
          /\ ~EndedExecuted => (cli.executions = <<>> /\ result = <<>>)

\* A cycle ended with a single ExecutionResult after two other decisions.
C13_Witness ==
    /\ cli.pc = "done"
    /\ EndedExecuted
    /\ Len(cli.decisions) = 3
    /\ cli.decisions[1].choice = HELP
    /\ cli.decisions[2].choice = EXPLAIN

\* C14: in auto mode every decision is EXECUTE; a generated command that
\* validate_command accepted is executed exactly once, by the first decision
\* of the cycle, and one that validate_command did not accept is never
\* executed and never decided upon.
C14_AutoModeExecutesAccepted ==
    auto_mode =>
        /\ \A i \in 1..Len(cli.decisions) : cli.decisions[i].choice = EXECUTE
        /\ Len(cli.decisions) <= 1
        /\ (cli.pc = "done" /\ FirstVerdict(cli) = "accepted") =>
              /\ cli.decisions = <<Decision(EXECUTE, cli.validations[1].command)>>
              /\ cli.executions = <<[command |-> cli.validations[1].command,
                                     dry_run |-> config.dry_run_default]>>
              /\ Len(result) = 1
        /\ (cli.pc = "confirm") =>
              (FirstVerdict(cli) = "accepted" /\ cli.decisions = <<>>)
        /\ (FirstVerdict(cli) \in {"rejected", "raised"}) =>
              /\ cli.pc = "done"
              /\ cli.decisions = <<>>
              /\ cli.executions = <<>>
              /\ result = <<>>
              /\ children = <<>>

\* In auto mode a command whose advisory level is critical was accepted by
\* validation and really executed.
C14_Witness ==
    /\ auto_mode
    /\ AdvisoryCritical(cli)
    /\ FirstVerdict(cli) = "accepted"
    /\ cli.outcome = "executed"
    /\ ~config.dry_run_default
    /\ children # <<>>

\* C15: classification never fails.  For every command text and every policy
\* check_command_safety returns a risk level and its findings rather than
\* raising, a text with findings included; validate_command, which calls it,
\* does not raise either.
C15_ClassificationNeverFails ==
    /\ (returned.op = "check_command_safety") =>
          /\ ~returned.value.raised
          /\ returned.value.risk_level \in RiskLevel
    /\ (returned.op = "validate_command") => ~returned.value.raised

\* C16: the acceptance policy.  For every non-empty, well-formed command text
\* validate_command returns, rejecting a text classified CRITICAL, rejecting a
\* text classified HIGH exactly under strict_mode, and accepting a text
\* classified MEDIUM or LOW; the warnings of an accepted text are the
\* classifier's findings, in order.
C16_AcceptancePolicy ==
    (/\ returned.op = "validate_command"
     /\ strip(probe) # <<>>
     /\ shlex_split(probe) = "ok") =>
        /\ ~returned.value.raised
        /\ ~check_command_safety(probe, config).raised
        /\ (check_command_safety(probe, config).risk_level = CRITICAL)
              => ~returned.value.is_valid
        /\ (check_command_safety(probe, config).risk_level = HIGH)
              => (returned.value.is_valid <=> ~config.strict_mode)
        /\ (check_command_safety(probe, config).risk_level \in {MEDIUM, LOW})
              => returned.value.is_valid
        /\ returned.value.is_valid
              => returned.value.warnings = check_command_safety(probe, config).warnings

\* The text has no character other than blanks, tabs and newlines.
Blank(s) == \A i \in 1..Len(s) : s[i] \in {" ", "\t", "\n"}

\* The text has a single quotation mark and no backslash: its quoting is
\* unbalanced.
IllQuoted(s) ==
    /\ Cardinality({i \in 1..Len(s) : s[i] \in {"'", "\""}}) = 1
    /\ \A i \in 1..Len(s) : s[i] # "\\"

\* C17: validate_command returns accepted=false with the single warning
\* "command is empty" for an empty or blank text, and accepted=false with a
\* single syntax-error warning for a text with unbalanced quoting; it does
\* not raise and reports no classifier finding, whatever the classifier
\* would do with the text.
C17_EmptyAndIllQuotedRejected ==
    (returned.op = "validate_command") =>
        /\ Blank(probe) =>
              returned.value = [raised |-> FALSE, is_valid |-> FALSE,
                                warnings |-> <<Warn("command is empty", <<>>)>>]
        /\ (IllQuoted(probe) /\ ~Blank(probe)) =>
              /\ ~returned.value.raised
              /\ ~returned.value.is_valid
              /\ Len(returned.value.warnings) = 1
              /\ returned.value.warnings[1].msg = "command syntax error"
              /\ returned.value.warnings[1].arg = <<"No closing quotation">>

\* validate_command rejected, for its quoting, a text on which the classifier
\* raises.
C17_Witness ==
    /\ returned.op = "validate_command"
    /\ IllQuoted(probe)
    /\ check_command_safety(probe, config).raised
    /\ ~returned.value.raised
    /\ ~returned.value.is_valid

\* C18: no child process is spawned on behalf of the proposed command before
\* an EXECUTE decision was made for it: every child of a cycle was spawned by
\* execute_command, after an EXECUTE decision; validation, EXPLAIN and HELP
\* spawn nothing.
C18_NoSpawnBeforeExecute ==
    \A j \in 1..Len(children) :
        /\ children[j].by = "execute_command"
        /\ \E i \in 1..Len(cli.decisions) :
              /\ cli.decisions[i].choice = EXECUTE
              /\ cli.decisions[i].command = children[j].command

\* The classification c is one that the acceptance policy lets through.
BelowRejection(c, cfg) ==
    /\ ~c.raised
    /\ c.risk_level \in RiskLevel \ {CRITICAL}
    /\ cfg.strict_mode => c.risk_level # HIGH

\* C19: whenever the confirmation loop awaits a decision, the classifier
\* returns for the current command a level below CRITICAL, and below HIGH
\* under strict_mode, after any number of MODIFY decisions.
C19_PresentedIsAccepted ==
    (cli.pc = "confirm") =>
        /\ BelowRejection(check_command_safety(cli.command, config), config)
        /\ cli.command_info.command = cli.command

\* The loop awaits a decision on a replacement command, after an accepted and
\* a rejected MODIFY.
C19_Witness ==
    /\ cli.pc = "confirm"
    /\ Len(cli.decisions) = 2
    /\ cli.decisions[1].choice = MODIFY
    /\ cli.decisions[2].choice = MODIFY
    /\ cli.command # cli.validations[1].command
    /\ RejectedReplacements(cli) # {}

\* The answer v of validate_command is the one that follows from the
\* classification c: the findings reported are those of c and the verdict is
\* the acceptance policy's on c.
AgreesWith(v, c, cfg) ==
    IF c.raised THEN v.raised
    ELSE /\ ~v.raised
         /\ v.is_valid = AllowedBy(c, cfg).allowed
         /\ v.warnings = IF v.is_valid THEN c.warnings
                         ELSE Append(c.warnings, Warn("rejected by security policy", <<>>))

MatchedRules(command, cfg) ==
    {<<"dangerous", MatchedPatterns(command)[i]>> :
        i \in 1..Len(MatchedPatterns(command))}
    \cup (IF ContainsAny(command, SUDO_COMMANDS) THEN {<<"privileged", 0>>} ELSE {})
    \cup (IF /\ ContainsAny(command, FILE_COMMANDS)
             /\ ContainsAny(command, important_dirs)
          THEN {<<"important_dir", 0>>} ELSE {})
    \cup (IF /\ ContainsAny(command, FILE_COMMANDS)
             /\ cfg.allowed_dirs # <<>>
             /\ ~ContainsAny(command, cfg.allowed_dirs)
          THEN {<<"allow_list", 0>>} ELSE {})
    \cup (IF ContainsAny(command, network_commands) THEN {<<"network", 0>>} ELSE {})
    \cup (IF Contains(command, <<"|">>) \/ Contains(command, <<">">>)
          THEN {<<"pipe", 0>>} ELSE {})

\* The level check_command_safety attaches to a rule.
Tier(rule, cfg) ==
    CASE rule[1] = "dangerous" -> CRITICAL
      [] rule[1] = "privileged" -> IF cfg.allow_sudo THEN MEDIUM ELSE HIGH
      [] rule[1] = "important_dir" -> HIGH
      [] OTHER -> MEDIUM

\* The order of the risk levels: LOW < MEDIUM < HIGH < CRITICAL.
LevelOrder == <<LOW, MEDIUM, HIGH, CRITICAL>>

\* The place of a level in that order.
Rank(level) == CHOOSE i \in 1..Len(LevelOrder) : LevelOrder[i] = level

\* C21: classification is monotone.  When the rules matched by a text A
\* include those matched by a text B, under one policy, check_command_safety
\* returns for A a level greater than or equal to the level it returns for B.
C21_ClassificationMonotone ==
    (/\ returned.op = "check_command_safety_other"
     /\ MatchedRules(returned.other, config) \subseteq MatchedRules(probe, config)) =>
        /\ ~returned.first.raised
        /\ ~returned.value.raised
        /\ Rank(returned.first.risk_level) >= Rank(returned.value.risk_level)

\* The greatest of the levels a set of rules carries, LOW when the set is empty.
MaxTier(rules, cfg) ==
    IF rules = {} THEN LOW
    ELSE LevelOrder[CHOOSE n \in {Rank(Tier(r, cfg)) : r \in rules} :
                        \A r \in rules : Rank(Tier(r, cfg)) <= n]

\* C22: the level check_command_safety returns is the greatest level over the
\* rules the text matches, and LOW when it matches none: findings of one level
\* do not add up to a higher one, and a later rule of a lower level does not
\* lower the level.
C22_LevelIsMaxTier ==
    (returned.op = "check_command_safety") =>
        /\ ~returned.value.raised
        /\ returned.value.risk_level = MaxTier(MatchedRules(probe, config), config)

\* One finding if the condition holds, none otherwise.
FindingIf(cond, finding) == IF cond THEN <<finding>> ELSE <<>>

\* Every match of a command, in rule-category order: one finding per dangerous
\* pattern found, in table order, then the privileged-command finding, the
\* important-directory finding, the allow-list finding, the network finding
\* and the pipe/redirection finding.
AllFindings(command, cfg) ==
    [k \in 1..Len(MatchedPatterns(command)) |->
        Warn("dangerous pattern", DANGEROUS_PATTERNS[MatchedPatterns(command)[k]])]
    \o FindingIf(<<"privileged", 0>> \in MatchedRules(command, cfg),
                 Warn(IF cfg.allow_sudo THEN "needs admin rights"
                      ELSE "needs admin rights, sudo not allowed", <<>>))
    \o (IF <<"important_dir", 0>> \in MatchedRules(command, cfg)
        THEN <<Warn("important system directory", FirstImportantDir(command))>>
        ELSE <<>>)
    \o FindingIf(<<"allow_list", 0>> \in MatchedRules(command, cfg),
                 Warn("file operation outside allowed dirs", <<>>))
    \o FindingIf(<<"network", 0>> \in MatchedRules(command, cfg),
                 Warn("network operation", <<>>))
    \o FindingIf(<<"pipe", 0>> \in MatchedRules(command, cfg),
                 Warn("pipe or redirection", <<>>))

\* C23: every rule category is evaluated on every classification, a CRITICAL
\* match does not end it, and the findings check_command_safety returns are
\* all the matches in rule-category order.
C23_AllFindingsInOrder ==
    (returned.op = "check_command_safety") =>
        /\ ~returned.value.raised
        /\ returned.value.warnings = AllFindings(probe, config)

\* The number of allow-list findings among the findings ws.
AllowListFindings(ws) ==
    Cardinality({k \in 1..Len(ws) : ws[k].msg = "file operation outside allowed dirs"})

\* C24: the allow-list rule.  With an empty allowed_dirs, and for a text with
\* no file-operation verb, check_command_safety returns no allow-list finding;
\* with a non-empty allowed_dirs, for a text with a file-operation verb that
\* names none of the allowed directories, it returns exactly one allow-list
\* finding and a level of MEDIUM or more.
C24_AllowListRule ==
    (returned.op = "check_command_safety") =>
        /\ (config.allowed_dirs = <<>> \/ ~ContainsAny(probe, FILE_COMMANDS)) =>
              AllowListFindings(returned.value.warnings) = 0
        /\ (/\ config.allowed_dirs # <<>>
            /\ ContainsAny(probe, FILE_COMMANDS)
            /\ ~ContainsAny(probe, config.allowed_dirs)) =>
              /\ ~returned.value.raised
              /\ AllowListFindings(returned.value.warnings) = 1
              /\ Rank(returned.value.risk_level) >= Rank(MEDIUM)

\* A step of the cycle in which an EXPLAIN or HELP decision was made.
ExplainOrHelpStep ==
    /\ Len(cli'.decisions) = Len(cli.decisions) + 1
    /\ cli'.decisions[Len(cli'.decisions)].choice \in {EXPLAIN, HELP}

\* C25: an EXPLAIN or HELP decision changes nothing of the protocol state: the
\* current command, its warnings and command_info are as before, the loop
\* still awaits a decision, nothing was validated, executed or displayed as a
\* result; this is so however many help commands the lookup had to try.
C25_ExplainAndHelpChangeNothing ==
    [][ExplainOrHelpStep =>
          /\ cli.pc = "confirm"
          /\ cli' = [cli EXCEPT !.decisions =
                        Append(@, Decision(cli'.decisions[Len(cli'.decisions)].choice,
                                           cli.command))]
          /\ UNCHANGED <<config, auto_mode, result, host, displayed>>]_vars

\* After an EXPLAIN whose lookup tried all its help commands and a HELP, the
\* loop still awaits a decision on the generated command.
C25_Witness ==
    /\ cli.pc = "confirm"
    /\ Len(cli.decisions) = 2
    /\ cli.decisions[1].choice = EXPLAIN
    /\ cli.decisions[2].choice = HELP
    /\ Len(children) = Len(help_commands(cli.command))
    /\ cli.command = cli.validations[1].command

\* The number of child processes execute_command has spawned in the cycle.
SpawnedByExecute ==
    Cardinality({j \in 1..Len(children) : children[j].by = "execute_command"})

\* C26: no retries.  A real execute_command call makes one spawn attempt: it
\* leaves one child, or none when the spawn itself failed; and after a result
\* that is not a success (non-zero exit, timeout, spawn or communication
\* failure) the cycle has ended with that one call and one displayed result.
C26_NoRetries ==
    /\ Len(cli.executions) <= 1
    /\ Len(host) <= 1
    /\ (host = <<>>) => SpawnedByExecute = 0
    /\ (host # <<>>) =>
          SpawnedByExecute = IF host[1].kind = "spawn_error" THEN 0 ELSE 1
    /\ (result # <<>> /\ ~result[1].success) =>
          /\ cli.pc = "done"
          /\ Len(cli.executions) = 1
          /\ Len(result) = 1
          /\ Len(displayed) = 1

\* A real execution ended with a non-zero exit after another decision, and
\* its one child has exited.
C26_Witness ==
    /\ host # <<>>
    /\ host[1].kind = "exit"
    /\ host[1].rc # 0
    /\ result # <<>>
    /\ ~result[1].success
    /\ SpawnedByExecute = 1
    /\ Len(cli.decisions) = 2

\* The answers _prompt_user_choice knows.
RecognizedAnswers ==
    { <<"y">>, <<"y", "e", "s">>, <<"n">>, <<"n", "o">>,
      <<"m">>, <<"m", "o", "d", "i", "f", "y">>, <<"h">>, <<"h", "e", "l", "p">>,
      <<"e">>, <<"e", "x", "p", "l", "a", "i", "n">> }

AcceptedValidations(p) ==
    {k \in 1..Len(p.validations) : ~p.validations[k].raised /\ p.validations[k].is_valid}

\* The last of them.
LastAccepted(p) ==
    CHOOSE k \in AcceptedValidations(p) : \A j \in AcceptedValidations(p) : j <= k

\* The typed replacement is empty or, trimmed, the current command of p trimmed.
UnchangedReplacement(p, typed) ==
    \/ strip(typed) = <<>>
    \/ strip(typed) = strip(p.command)

\* A step of the cycle in which a MODIFY decision was made.
ModifyStep ==
    /\ Len(cli'.decisions) = Len(cli.decisions) + 1
    /\ cli'.decisions[Len(cli'.decisions)].choice = MODIFY

\* C28: once the first validation accepted, the current command and the
\* current warnings are the text and the warnings of the last validate_command
\* call that accepted, and command_info['command'] is the current command.  A
\* MODIFY whose replacement is accepted makes all three those of the
\* replacement; a MODIFY whose replacement is rejected changes none of them; a
\* MODIFY whose replacement is empty or the current text validates nothing and
\* changes nothing but the history of decisions.
C28_CommandAndWarningsFromOneValidation ==
    /\ []((AcceptedValidations(cli) # {}) =>
            /\ cli.command = cli.validations[LastAccepted(cli)].command
            /\ cli.warnings = cli.validations[LastAccepted(cli)].warnings
            /\ cli.command_info.command = cli.command)
    /\ []((cli.pc = "confirm") =>
            /\ AcceptedValidations(cli) # {}
            /\ \A typed \in TypedTexts :
                  UnchangedReplacement(cli, typed) =>
                      LoopStep(cli, config, MODIFY, typed) =
                          [cli EXCEPT !.decisions = Append(@, Decision(MODIFY, cli.command))])
    /\ [][ModifyStep =>
            /\ cli.pc = "confirm"
            /\ UNCHANGED <<config, auto_mode, result, host, displayed, children>>
            /\ cli'.executions = cli.executions
            /\ IF AcceptedValidations(cli') # AcceptedValidations(cli)
               THEN /\ cli'.pc = "confirm"
                    /\ cli'.command = cli'.validations[Len(cli'.validations)].command
                    /\ cli'.warnings = cli'.validations[Len(cli'.validations)].warnings
                    /\ cli'.command_info.command = cli'.command
                    /\ cli'.command_info.risk_level = cli.command_info.risk_level
               ELSE /\ cli'.command = cli.command
                    /\ cli'.warnings = cli.warnings
                    /\ cli'.command_info = cli.command_info
                    /\ (cli'.validations = cli.validations) =>
                          cli' = [cli EXCEPT !.decisions =
                                     Append(@, Decision(MODIFY, cli.command))]]_vars

\* A first MODIFY replaced the generated command by an accepted text, a second
\* MODIFY typed nothing new: the loop awaits a decision with the text and the
\* warnings of the first MODIFY's validation.
C28_Witness ==
    /\ cli.pc = "confirm"
    /\ Len(cli.decisions) = 2
    /\ cli.decisions[1].choice = MODIFY
    /\ cli.decisions[2].choice = MODIFY
    /\ Len(cli.validations) = 2
    /\ cli.validations[2].is_valid
    /\ cli.command = cli.validations[2].command
    /\ cli.command # cli.validations[1].command
    /\ cli.warnings = cli.validations[2].warnings
    /\ cli.command_info.command = cli.command

\* The validate_command calls of cycle p that an exception left.
RaisedValidations(p) == {k \in 1..Len(p.validations) : p.validations[k].raised}

\* C29: a validate_command call that raises, on the generated command or on a
\* MODIFY replacement, is the last thing its cycle does: the cycle has ended
\* with an error report, execute_command was not called in it, nothing was
\* spawned or displayed as a result, the text that raised is not the current
\* command, and the cycle takes no further step.
C29_FaultEndsCycle ==
    /\ [](\A k \in RaisedValidations(cli) :
            /\ k = Len(cli.validations)
            /\ cli.validations[k].at = Len(cli.decisions)
            /\ cli.pc = "done"
            /\ cli.outcome = "error"
            /\ cli.executions = <<>>
            /\ result = <<>>
            /\ host = <<>>
            /\ displayed = <<>>
            /\ SpawnedByExecute = 0
            /\ cli.command # cli.validations[k].command
            /\ cli.command_info.command # cli.validations[k].command
                  => cli.validations[k].at >= 1
            /\ \A n \in 1..Len(cli.decisions) : cli.decisions[n].choice # EXECUTE)
    /\ [][(RaisedValidations(cli) # {}) =>
            UNCHANGED <<cli, result, host, displayed>>]_vars

\* The validation of a MODIFY replacement raised, after the generated command
\* had been accepted: the cycle ended with an error and ran nothing.
C29_Witness ==
    /\ Len(cli.validations) = 2
    /\ cli.validations[1].is_valid
    /\ cli.validations[2].raised
    /\ cli.validations[2].at = 1
    /\ cli.decisions[1].choice = MODIFY
    /\ cli.pc = "done"
    /\ cli.outcome = "error"
    /\ cli.executions = <<>>

\* C30: in interactive mode a cycle whose advisory risk level is "critical" in
\* any letter case, and whose command validate_command accepted, gets CANCEL
\* from get_user_confirmation whatever the user would answer: it makes that
\* one decision, ends as cancelled, and execute_command is not called.  The
\* advisory level of a cycle never changes while the loop runs.  In auto mode
\* get_user_confirmation returns EXECUTE for every advisory level, and an
\* accepted command is executed at the first decision.
C30_AdvisoryCriticalCancels ==
    /\ []((~auto_mode /\ AdvisoryCritical(cli) /\ FirstVerdict(cli) = "accepted") =>
            /\ cli.executions = <<>>
            /\ result = <<>>
            /\ displayed = <<>>
            /\ SpawnedByExecute = 0
            /\ Len(cli.validations) = 1
            /\ (cli.pc = "confirm") =>
                  /\ cli.decisions = <<>>
                  /\ \A answer \in Answers :
                        get_user_confirmation(cli.command_info, auto_mode, answer) = CANCEL
            /\ (cli.pc = "done") =>
                  /\ cli.outcome = "cancelled"
                  /\ cli.decisions = <<Decision(CANCEL, cli.command)>>)
    /\ []((auto_mode /\ FirstVerdict(cli) = "accepted") =>
            /\ (cli.pc = "confirm") =>
                  \A answer \in Answers, level \in AdvisoryLevels :
                      get_user_confirmation([cli.command_info EXCEPT !.risk_level = level],
                                            auto_mode, answer) = EXECUTE
            /\ (cli.pc = "done") =>
                  /\ cli.outcome = "executed"
                  /\ cli.decisions = <<Decision(EXECUTE, cli.command)>>
                  /\ Len(cli.executions) = 1)
    /\ [][(cli.pc = "confirm") =>
            cli'.command_info.risk_level = cli.command_info.risk_level]_vars

\* An interactive cycle whose advisory level is "Critical" ended as cancelled,
\* with an accepted command and nothing run.
C30_Witness ==
    /\ ~auto_mode
    /\ cli.command_info.risk_level = <<"C", "r", "i", "t", "i", "c", "a", "l">>
    /\ FirstVerdict(cli) = "accepted"
    /\ cli.pc = "done"
    /\ cli.outcome = "cancelled"
    /\ cli.decisions = <<Decision(CANCEL, cli.command)>>
    /\ cli.executions = <<>>

====
